---- MODULE Spec2Model ----
(***************************************************************************)
(* A model of blyaxyz/ADBoverNodeJs (src/public/webadb.js): the browser    *)
(* helper WebAdbHelper.pickSerial and the express server's handlers        *)
(* (/api/logcat, /api/push, /api/install, /api/shell, /api/package/apk),   *)
(* the Command Runner adbCmd and the parser parseDevicesList.              *)
(*                                                                         *)
(* Strings are sequences of one-character strings, so that split, trim     *)
(* and startsWith are computed character by character as JavaScript does.  *)
(***************************************************************************)
EXTENDS Integers, Sequences, FiniteSets, TLC

(***************************************************************************)
(* Bounds of the model.                                                    *)
(***************************************************************************)
\* characters the logcat subprocess writes (both pipes together)
MaxOut == 3
\* how many times the request's 'close' listener is run
MaxClose == 2
\* send() calls counted after the response was ended
MaxLate == 1

(***************************************************************************)
(* Characters and JavaScript string helpers.                               *)
(***************************************************************************)
NL == "\n"
CR == "\r"
SP == " "
TAB == "\t"
COLON == ":"

RECURSIVE Concat(_)
Concat(ss) == IF ss = <<>> THEN <<>> ELSE Head(ss) \o Concat(Tail(ss))

RECURSIVE FilterNonEmpty(_)
FilterNonEmpty(ss) ==
  IF ss = <<>> THEN <<>>
  ELSE IF Head(ss) = <<>> THEN FilterNonEmpty(Tail(ss))
       ELSE <<Head(ss)>> \o FilterNonEmpty(Tail(ss))

\* the first index from i on where s has a character of cs, Len(s) + 1 if none
IndexOfAny(s, i, cs) ==
  CHOOSE j \in i..(Len(s) + 1) :
    (j = Len(s) + 1 \/ s[j] \in cs) /\ \A k \in i..(j - 1) : s[k] \notin cs

\* the first index from i on where s has a character outside cs
IndexOfNone(s, i, cs) ==
  CHOOSE j \in i..(Len(s) + 1) :
    (j = Len(s) + 1 \/ s[j] \notin cs) /\ \A k \in i..(j - 1) : s[k] \in cs

\* String.prototype.split(/\r?\n/): the pieces between the separators, the
\* separator being "\n" or "\r\n"; an empty piece is kept.
RECURSIVE SplitNewlineFrom(_, _)
SplitNewlineFrom(s, i) ==
  LET j == IndexOfAny(s, i, {NL})
  IN IF j > Len(s) THEN <<SubSeq(s, i, Len(s))>>
     ELSE <<SubSeq(s, i, IF j > i /\ s[j - 1] = CR THEN j - 2 ELSE j - 1)>>
          \o SplitNewlineFrom(s, j + 1)

SplitNewline(s) == SplitNewlineFrom(s, 1)

RECURSIVE JoinWith(_, _)
JoinWith(ss, sep) ==
  IF ss = <<>> THEN <<>>
  ELSE IF Len(ss) = 1 THEN ss[1]
  ELSE ss[1] \o sep \o JoinWith(Tail(ss), sep)

\* line.replace(/\r?\n/g, '\n'): every separator becomes "\n"
ReplaceNewline(s) == JoinWith(SplitNewline(s), <<NL>>)

(***************************************************************************)
(* State.                                                                  *)
(***************************************************************************)
VARIABLES
  \* /api/logcat
  relay,        \* "Idle" | "Streaming" | "Closed" | "Rejected"
  child,        \* "none" | "running" | "exited"
  spawned,      \* number of subprocesses spawned by the subscription
  termSent,     \* SIGTERM was sent to the subprocess
  killTimer,    \* "off" | "armed" | "fired": execa's force-kill timer
  elapsed,      \* milliseconds since the timer was armed
  stdoutPipe,   \* characters written by the subprocess, not yet read
  stderrPipe,
  emittedOut,   \* everything the subprocess wrote to its standard output
  emittedErr,
  written,      \* what res.write received before res.end(), in order
  lateWrites,   \* send() calls made after res.end()
  closeCount,   \* runs of onClose
  \* /api/push, /api/install, /api/shell
  hpc,          \* "idle" | "handler" | "awaitAdb" | "responded"
  route,        \* "none" | "push" | "install" | "shell"
  body,         \* the request's fields
  tmpFile,      \* "none" | "stored" | "deleted": the uploaded file on disk
  unlinkPending,\* fs.unlink was called and has not completed
  adbArgs,      \* the argument list handed to adbCmd
  adbOpts,      \* the options handed to adbCmd
  adbSettle,    \* how execa settled
  adbRes,       \* what adbCmd returned
  status,       \* the HTTP status sent, 0 before the response
  \* parseDevicesList
  ppc,          \* "start" | "loop" | "done"
  text,         \* the argument
  orig,         \* the fields the text was built from, when it is one device line
  lines,        \* const lines
  idx,          \* the loop's position in lines
  list,         \* const list, and the value returned
  \* WebAdbHelper.pickSerial
  kpc,          \* where the call is
  kopts,        \* the options of the call
  calls,        \* calls of pickSerial made
  adbLoaded,    \* window.Adb is defined
  requests,     \* the server requests issued by the call, in order
  fallback,     \* how the try block of the fallback ended
  kresult,      \* how pickSerial settled
  \* /api/package/apk
  apc,          \* where the handler is
  apkType,      \* "base" | "all"
  paths,        \* the kinds of the lines of pm path: "package" | "split"
  pathIdx,      \* the pull loop's position in paths
  tmpDir,       \* the temporary directory exists
  onDisk,       \* the pulled files that exist in it
  pulled,       \* const pulled
  queue,        \* files given to the archive and not yet read by it
  zipped,       \* files the archive has written into the response
  apkResp       \* what the response is

logVars == <<relay, child, spawned, termSent, killTimer, elapsed, stdoutPipe,
             stderrPipe, emittedOut, emittedErr, written, lateWrites, closeCount>>

httpVars == <<hpc, route, body, tmpFile, unlinkPending, adbArgs, adbOpts,
              adbSettle, adbRes, status>>

parseVars == <<ppc, text, orig, lines, idx, list>>

pickVars == <<kpc, kopts, calls, adbLoaded, requests, fallback, kresult>>

apkVars == <<apc, apkType, paths, pathIdx, tmpDir, onDisk, pulled, queue, zipped, apkResp>>

vars == <<logVars, httpVars, parseVars, pickVars, apkVars>>

(***************************************************************************)
(* /api/logcat (SSE).                                                      *)
(***************************************************************************)
ForceKillAfterTimeout == 2000
TickMs == 1000
LogChars == {"a", NL, CR}

DataPrefix == <<"d", "a", "t", "a", ":", " ">>
StderrPrefix == <<"[", "s", "t", "d", "e", "r", "r", "]", " ">>

InitLog ==
  /\ relay = "Idle"
  /\ child = "none"
  /\ spawned = 0
  /\ termSent = FALSE
  /\ killTimer = "off"
  /\ elapsed = 0
  /\ stdoutPipe = <<>>
  /\ stderrPipe = <<>>
  /\ emittedOut = <<>>
  /\ emittedErr = <<>>
  /\ written = <<>>
  /\ lateWrites = 0
  /\ closeCount = 0

\* const send = (line) => res.write(`data: ${...}\n\n`): what is written
sendFrame(line) == DataPrefix \o ReplaceNewline(line) \o <<NL, NL>>

\* the 'data' listener: split the chunk, send every non-empty piece
chunkLines(chunk) == FilterNonEmpty(SplitNewline(chunk))

framesOf(src, prefix, chunk) ==
  LET ls == chunkLines(chunk)
  IN [i \in 1..Len(ls) |-> [src |-> src, data |-> sendFrame(prefix \o ls[i])]]

\* the effect of the listener's send() calls on the response
sendAll(src, prefix, chunk) ==
  IF relay = "Closed"
  THEN /\ lateWrites' = IF chunkLines(chunk) # <<>> /\ lateWrites < MaxLate
                        THEN lateWrites + 1 ELSE lateWrites
       /\ UNCHANGED written
  ELSE /\ written' = written \o framesOf(src, prefix, chunk)
       /\ UNCHANGED lateWrites

\* app.get('/api/logcat'): up to req.on('close', onClose), no await in between
LogcatRequest(hasSerial) ==
  /\ relay = "Idle"
  /\ IF ~hasSerial
     THEN /\ relay' = "Rejected"
          /\ UNCHANGED <<child, spawned>>
     ELSE /\ relay' = "Streaming"
          /\ child' = "running"
          /\ spawned' = spawned + 1
  /\ UNCHANGED <<termSent, killTimer, elapsed, stdoutPipe, stderrPipe,
                 emittedOut, emittedErr, written, lateWrites, closeCount>>
  /\ UNCHANGED <<httpVars, parseVars, pickVars, apkVars>>

\* the subprocess writes one character to one of its pipes
ChildWrite(c, toErr) ==
  /\ child = "running"
  /\ Len(emittedOut) + Len(emittedErr) < MaxOut
  /\ IF toErr
     THEN /\ stderrPipe' = Append(stderrPipe, c)
          /\ emittedErr' = Append(emittedErr, c)
          /\ UNCHANGED <<stdoutPipe, emittedOut>>
     ELSE /\ stdoutPipe' = Append(stdoutPipe, c)
          /\ emittedOut' = Append(emittedOut, c)
          /\ UNCHANGED <<stderrPipe, emittedErr>>
  /\ UNCHANGED <<relay, child, spawned, termSent, killTimer, elapsed, written,
                 lateWrites, closeCount>>
  /\ UNCHANGED <<httpVars, parseVars, pickVars, apkVars>>

\* child.stdout.on('data', chunk => ...): the chunk is what the pipe holds
StdoutData ==
  /\ relay \in {"Streaming", "Closed"}
  /\ stdoutPipe # <<>>
  /\ sendAll("stdout", <<>>, stdoutPipe)
  /\ stdoutPipe' = <<>>
  /\ UNCHANGED <<relay, child, spawned, termSent, killTimer, elapsed, stderrPipe,
                 emittedOut, emittedErr, closeCount>>
  /\ UNCHANGED <<httpVars, parseVars, pickVars, apkVars>>

\* child.stderr.on('data', chunk => ...)
StderrData ==
  /\ relay \in {"Streaming", "Closed"}
  /\ stderrPipe # <<>>
  /\ sendAll("stderr", StderrPrefix, stderrPipe)
  /\ stderrPipe' = <<>>
  /\ UNCHANGED <<relay, child, spawned, termSent, killTimer, elapsed, stdoutPipe,
                 emittedOut, emittedErr, closeCount>>
  /\ UNCHANGED <<httpVars, parseVars, pickVars, apkVars>>

\* child.kill('SIGTERM') alone: no force-kill timer
onClose_NoForceKill ==
  /\ relay \in {"Streaming", "Closed"}
  /\ closeCount < MaxClose
  /\ relay' = "Closed"
  /\ closeCount' = closeCount + 1
  /\ termSent' = (termSent \/ child = "running")
  /\ UNCHANGED <<killTimer, elapsed>>
  /\ UNCHANGED <<child, spawned, stdoutPipe, stderrPipe, emittedOut, emittedErr,
                 written, lateWrites>>
  /\ UNCHANGED <<httpVars, parseVars, pickVars, apkVars>>

\* const onClose = () => { child.kill('SIGTERM', { forceKillAfterTimeout: 2000 });
\* res.end(); }: kill() on a subprocess that has exited sends nothing and arms
\* nothing; a timer already armed keeps running
onClose ==
  /\ relay \in {"Streaming", "Closed"}
  /\ closeCount < MaxClose
  /\ relay' = "Closed"
  /\ closeCount' = closeCount + 1
  /\ termSent' = (termSent \/ child = "running")
  /\ IF child = "running" /\ killTimer = "off"
     THEN killTimer' = "armed" /\ elapsed' = 0
     ELSE UNCHANGED <<killTimer, elapsed>>
  /\ UNCHANGED <<child, spawned, stdoutPipe, stderrPipe, emittedOut, emittedErr,
                 written, lateWrites>>
  /\ UNCHANGED <<httpVars, parseVars, pickVars, apkVars>>

\* the subprocess exits: on its own, or on the SIGTERM it was sent
ChildExit ==
  /\ child = "running"
  /\ child' = "exited"
  /\ UNCHANGED <<relay, spawned, termSent, killTimer, elapsed, stdoutPipe,
                 stderrPipe, emittedOut, emittedErr, written, lateWrites, closeCount>>
  /\ UNCHANGED <<httpVars, parseVars, pickVars, apkVars>>

\* time passes while the force-kill timer is armed
Tick ==
  /\ killTimer = "armed"
  /\ elapsed < ForceKillAfterTimeout
  /\ elapsed' = elapsed + TickMs
  /\ UNCHANGED <<relay, child, spawned, termSent, killTimer, stdoutPipe,
                 stderrPipe, emittedOut, emittedErr, written, lateWrites, closeCount>>
  /\ UNCHANGED <<httpVars, parseVars, pickVars, apkVars>>

\* forceKillAfterTimeout expired: SIGKILL, which a running subprocess cannot ignore
ForceKill ==
  /\ killTimer = "armed"
  /\ elapsed >= ForceKillAfterTimeout
  /\ killTimer' = "fired"
  /\ child' = IF child = "running" THEN "exited" ELSE child
  /\ UNCHANGED <<relay, spawned, termSent, elapsed, stdoutPipe, stderrPipe,
                 emittedOut, emittedErr, written, lateWrites, closeCount>>
  /\ UNCHANGED <<httpVars, parseVars, pickVars, apkVars>>

NextLogcat ==
  \/ \E hasSerial \in BOOLEAN : LogcatRequest(hasSerial)
  \/ \E c \in LogChars, toErr \in BOOLEAN : ChildWrite(c, toErr)
  \/ StdoutData
  \/ StderrData
  \/ onClose
  \/ ChildExit
  \/ Tick
  \/ ForceKill

(***************************************************************************)
(* The Command Runner and the handlers /api/push, /api/install, /api/shell.*)
(***************************************************************************)
DefaultTimeoutMs == 30000
MaxTimeoutMs == 300000
InstallTimeoutMs == 600000
\* exit codes 1..MaxExit of a failing adb
MaxExit == 2

Undef == "undefined"

\* JavaScript values a JSON or multipart body can carry in timeoutMs
JsUndefined == [t |-> "undefined"]
JsNull == [t |-> "null"]
JsNum(n) == [t |-> "number", v |-> n]
JsNumericString(n) == [t |-> "string", numeric |-> TRUE, v |-> n]
JsOtherString == [t |-> "string", numeric |-> FALSE, v |-> 0]
JsBool(b) == [t |-> "boolean", b |-> b]

\* Number(x): a number or NaN
NaN == [nan |-> TRUE, v |-> 0]
Num(n) == [nan |-> FALSE, v |-> n]
Number(x) ==
  CASE x.t = "undefined" -> NaN
    [] x.t = "null" -> Num(0)
    [] x.t = "number" -> Num(x.v)
    [] x.t = "string" -> IF x.numeric THEN Num(x.v) ELSE NaN
    [] x.t = "boolean" -> Num(IF x.b THEN 1 ELSE 0)

\* n || d for a number n: NaN and 0 are falsy
NumOr(n, d) == IF n.nan \/ n.v = 0 THEN d ELSE n.v

MathMin(a, b) == IF a <= b THEN a ELSE b

\* a || b for strings: undefined and '' are falsy
StrOr(a, b) == IF a = Undef \/ a = "" THEN b ELSE a

\* Math.min(Number(timeoutMs) || 30000, 5*60*1000)
shellTimeout(timeoutMs) == MathMin(NumOr(Number(timeoutMs), DefaultTimeoutMs), MaxTimeoutMs)

NoTimeout == [hasTimeout |-> FALSE, timeout |-> 0]
WithTimeout(n) == [hasTimeout |-> TRUE, timeout |-> n]

\* How execa(ADB, args, opts) can settle.  A negative timeout is refused with a
\* TypeError before anything is spawned; a timeout can only expire when one is set.
ExecaSettlements(opts) ==
  IF opts.hasTimeout /\ opts.timeout < 0
  THEN {[kind |-> "invalidOptions", exitCode |-> -1, shortMessage |-> Undef,
         message |-> "Expected the timeout option to be a non-negative integer",
         stdout |-> Undef, stderr |-> Undef]}
  ELSE {[kind |-> "exit0", exitCode |-> 0, shortMessage |-> Undef, message |-> Undef,
         stdout |-> o, stderr |-> ""] : o \in {"", "out"}}
       \cup {[kind |-> "nonZeroExit", exitCode |-> n,
              shortMessage |-> "Command failed with exit code",
              message |-> "Command failed with exit code, and the output",
              stdout |-> o, stderr |-> "err"] : n \in 1..MaxExit, o \in {"", "out"}}
       \cup {[kind |-> "launchFailure", exitCode |-> -1,
              shortMessage |-> "Command failed with ENOENT",
              message |-> "Command failed with ENOENT: spawn adb ENOENT",
              stdout |-> "", stderr |-> ""]}
       \cup {[kind |-> "killed", exitCode |-> -1,
              shortMessage |-> "Command was killed with SIGTERM",
              message |-> "Command was killed with SIGTERM",
              stdout |-> o, stderr |-> ""] : o \in {"", "out"}}
       \cup (IF opts.hasTimeout /\ opts.timeout > 0
             THEN {[kind |-> "timeout", exitCode |-> -1,
                    shortMessage |-> "Command timed out",
                    message |-> "Command timed out after the timeout",
                    stdout |-> o, stderr |-> ""] : o \in {"", "out"}}
             ELSE {})

ExitCodeOf(e) == IF e.exitCode < 0 THEN Undef ELSE e.exitCode

\* adbCmd without the try/catch: a rejection of execa propagates
adbCmd_NoCatch(e) ==
  IF e.kind = "exit0"
  THEN [thrown |-> FALSE, ok |-> TRUE, stdout |-> e.stdout, error |-> Undef,
        code |-> Undef, stderr |-> Undef]
  ELSE [thrown |-> TRUE, ok |-> FALSE, stdout |-> Undef, error |-> Undef,
        code |-> Undef, stderr |-> Undef]

\* async function adbCmd(args, opts): e is how execa settled
adbCmd(e) ==
  IF e.kind = "exit0"
  THEN [thrown |-> FALSE, ok |-> TRUE, stdout |-> e.stdout, error |-> Undef,
        code |-> Undef, stderr |-> Undef]
  ELSE [thrown |-> FALSE, ok |-> FALSE, error |-> StrOr(e.shortMessage, e.message),
        code |-> ExitCodeOf(e), stdout |-> e.stdout, stderr |-> e.stderr]

NoSettle == [kind |-> "none"]
NoResult == [thrown |-> FALSE, ok |-> FALSE, stdout |-> Undef, error |-> Undef,
             code |-> Undef, stderr |-> Undef]

TimeoutInputs ==
  {JsUndefined, JsNull, JsOtherString, JsBool(TRUE), JsBool(FALSE)}
  \cup {JsNum(n) : n \in {-1, 0, 1, 30000, 300000, 300001}}
  \cup {JsNumericString(n) : n \in {-5, 0, 1500, 400000}}

CmdInputs == {"undefined", "string", "number"}

EmptyBody ==
  [serial |-> FALSE, file |-> FALSE, remote |-> FALSE, cmd |-> "undefined",
   timeoutMs |-> JsUndefined, reinstall |-> FALSE, grant |-> FALSE, downgrade |-> FALSE]

Bodies(r) ==
  CASE r = "push" ->
         {[EmptyBody EXCEPT !.serial = s, !.file = f, !.remote = m]
            : s \in BOOLEAN, f \in BOOLEAN, m \in BOOLEAN}
    [] r = "install" ->
         {[EmptyBody EXCEPT !.serial = s, !.file = f, !.reinstall = a, !.grant = g,
                            !.downgrade = d]
            : s \in BOOLEAN, f \in BOOLEAN, a \in BOOLEAN, g \in BOOLEAN, d \in BOOLEAN}
    [] r = "shell" ->
         {[EmptyBody EXCEPT !.serial = s, !.cmd = c, !.timeoutMs = t]
            : s \in BOOLEAN, c \in CmdInputs, t \in TimeoutInputs}

InitHttp ==
  /\ hpc = "idle"
  /\ route = "none"
  /\ body = EmptyBody
  /\ tmpFile = "none"
  /\ unlinkPending = FALSE
  /\ adbArgs = <<>>
  /\ adbOpts = NoTimeout
  /\ adbSettle = NoSettle
  /\ adbRes = NoResult
  /\ status = 0

\* a request arrives; upload.single(...) stores the uploaded file under
\* os.tmpdir() before the handler runs
Receive(r, b) ==
  /\ hpc = "idle"
  /\ hpc' = "handler"
  /\ route' = r
  /\ body' = b
  /\ tmpFile' = IF r \in {"push", "install"} /\ b.file THEN "stored" ELSE "none"
  /\ UNCHANGED <<unlinkPending, adbArgs, adbOpts, adbSettle, adbRes, status>>
  /\ UNCHANGED <<logVars, parseVars, pickVars, apkVars>>

reject400 ==
  /\ hpc' = "responded"
  /\ status' = 400
  /\ UNCHANGED <<adbArgs, adbOpts>>

callAdb(args, opts) ==
  /\ hpc' = "awaitAdb"
  /\ adbArgs' = args
  /\ adbOpts' = opts
  /\ UNCHANGED status

\* app.post('/api/push'): up to await adbCmd(...)
PushStart ==
  /\ hpc = "handler" /\ route = "push"
  /\ IF ~body.serial \/ ~body.file \/ ~body.remote
     THEN reject400
     ELSE callAdb(<<"-s", "serial", "push", "tmp", "remote">>, NoTimeout)
  /\ UNCHANGED <<route, body, tmpFile, unlinkPending, adbSettle, adbRes>>
  /\ UNCHANGED <<logVars, parseVars, pickVars, apkVars>>

installFlags(b) ==
  (IF b.reinstall THEN <<"-r">> ELSE <<>>) \o (IF b.grant THEN <<"-g">> ELSE <<>>)
  \o (IF b.downgrade THEN <<"-d">> ELSE <<>>)

\* app.post('/api/install'): up to await adbCmd(...)
InstallStart ==
  /\ hpc = "handler" /\ route = "install"
  /\ IF ~body.serial \/ ~body.file
     THEN reject400
     ELSE callAdb(<<"-s", "serial", "install">> \o installFlags(body) \o <<"tmp">>,
                  WithTimeout(InstallTimeoutMs))
  /\ UNCHANGED <<route, body, tmpFile, unlinkPending, adbSettle, adbRes>>
  /\ UNCHANGED <<logVars, parseVars, pickVars, apkVars>>

\* app.post('/api/shell'): up to await adbCmd(...)
ShellStart ==
  /\ hpc = "handler" /\ route = "shell"
  /\ IF ~body.serial \/ body.cmd # "string"
     THEN reject400
     ELSE callAdb(<<"-s", "serial", "shell", "cmd">>,
                  WithTimeout(shellTimeout(body.timeoutMs)))
  /\ UNCHANGED <<route, body, tmpFile, unlinkPending, adbSettle, adbRes>>
  /\ UNCHANGED <<logVars, parseVars, pickVars, apkVars>>

\* adbCmd returns and the handler runs to its end: the response, and for push
\* and install the finally block's fs.unlink(tmp, () => {})
AdbReturn(e) ==
  /\ hpc = "awaitAdb"
  /\ e \in ExecaSettlements(adbOpts)
  /\ adbSettle' = e
  /\ adbRes' = adbCmd(e)
  /\ IF adbCmd(e).thrown
     THEN UNCHANGED status
     ELSE status' = IF adbCmd(e).ok THEN 200 ELSE 500
  /\ hpc' = "responded"
  /\ unlinkPending' = (route \in {"push", "install"})
  /\ UNCHANGED <<route, body, tmpFile, adbArgs, adbOpts>>
  /\ UNCHANGED <<logVars, parseVars, pickVars, apkVars>>

\* fs.unlink completes
UnlinkDone ==
  /\ unlinkPending
  /\ unlinkPending' = FALSE
  /\ tmpFile' = "deleted"
  /\ UNCHANGED <<hpc, route, body, adbArgs, adbOpts, adbSettle, adbRes, status>>
  /\ UNCHANGED <<logVars, parseVars, pickVars, apkVars>>

NextHttp ==
  \/ \E r \in {"push", "install", "shell"} : \E b \in Bodies(r) : Receive(r, b)
  \/ PushStart
  \/ InstallStart
  \/ ShellStart
  \/ \E e \in ExecaSettlements(adbOpts) : AdbReturn(e)
  \/ UnlinkDone

(***************************************************************************)
(* parseDevicesList.                                                       *)
(***************************************************************************)
\* pieces a generated text is made of
MaxPieces == 4
\* lines of a generated text
MaxLines == 4
\* attribute tokens of a generated device line
MaxAttrs == 2

Header == <<"L", "i", "s", "t", " ", "o", "f", " ", "d", "e", "v", "i", "c", "e", "s",
            " ", "a", "t", "t", "a", "c", "h", "e", "d">>

Whitespace == {SP, TAB, NL, CR}

\* String.prototype.trim()
Trim(s) ==
  LET first == IndexOfNone(s, 1, Whitespace)
      last == CHOOSE j \in 0..Len(s) :
                (j = 0 \/ s[j] \notin Whitespace)
                /\ \A k \in (j + 1)..Len(s) : s[k] \in Whitespace
  IN SubSeq(s, first, last)

StartsWith(s, prefix) ==
  Len(s) >= Len(prefix) /\ SubSeq(s, 1, Len(prefix)) = prefix

\* String.prototype.split(/\s+/): a run of whitespace is one separator; the
\* empty string gives one empty piece
RECURSIVE SplitWsFrom(_, _)
SplitWsFrom(s, i) ==
  LET j == IndexOfAny(s, i, Whitespace)
  IN IF j > Len(s) THEN <<SubSeq(s, i, Len(s))>>
     ELSE <<SubSeq(s, i, j - 1)>> \o SplitWsFrom(s, IndexOfNone(s, j, Whitespace))

SplitWs(s) == SplitWsFrom(s, 1)

\* String.prototype.split(':')
RECURSIVE SplitColonFrom(_, _)
SplitColonFrom(s, i) ==
  LET j == IndexOfAny(s, i, {COLON})
  IN IF j > Len(s) THEN <<SubSeq(s, i, Len(s))>>
     ELSE <<SubSeq(s, i, j - 1)>> \o SplitColonFrom(s, j + 1)

SplitColon(s) == SplitColonFrom(s, 1)

\* Array.prototype.join(' ')
JoinSp(ss) == JoinWith(ss, <<SP>>)

\* A JavaScript object as its properties in insertion order: info[k] = v
\* replaces the value of a property that exists and appends a new one otherwise.
HasKey(obj, k) == \E i \in 1..Len(obj) : obj[i][1] = k

ObjSet(obj, k, v) ==
  IF HasKey(obj, k)
  THEN [i \in 1..Len(obj) |-> IF obj[i][1] = k THEN <<k, v>> ELSE obj[i]]
  ELSE Append(obj, <<k, v>>)

KeySerial == <<"s", "e", "r", "i", "a", "l">>
KeyState == <<"s", "t", "a", "t", "e">>

\* for (const m of infoStr.split(/\s+/)) { const [k, v] = m.split(':'); if (v) info[k] = v; }
RECURSIVE addAttrs(_, _)
addAttrs(info, ms) ==
  IF ms = <<>> THEN info
  ELSE LET kv == SplitColon(Head(ms))
           k == kv[1]
           v == IF Len(kv) >= 2 THEN kv[2] ELSE <<>>
       IN addAttrs(IF v # <<>> THEN ObjSet(info, k, v) ELSE info, Tail(ms))

Skip == [skip |-> TRUE, info |-> <<>>]

\* the loop body with if (!serial) continue: a line with one token gives a record
parseLine_NoStateCheck(l) ==
  IF StartsWith(l, Header) THEN Skip
  ELSE LET toks == SplitWs(l)
           serial == toks[1]
           state == IF Len(toks) >= 2 THEN toks[2] ELSE <<>>
           rest == SubSeq(toks, 3, Len(toks))
       IN IF serial = <<>> THEN Skip
          ELSE [skip |-> FALSE,
                info |-> addAttrs(<<<<KeySerial, serial>>, <<KeyState, state>>>>,
                                  SplitWs(JoinSp(rest)))]

\* the loop body: for one trimmed, non-empty line, the record pushed or none
parseLine(l) ==
  IF StartsWith(l, Header) THEN Skip
  ELSE LET toks == SplitWs(l)
           serial == toks[1]
           state == IF Len(toks) >= 2 THEN toks[2] ELSE <<>>
           rest == SubSeq(toks, 3, Len(toks))
       IN IF serial = <<>> \/ state = <<>> THEN Skip
          ELSE [skip |-> FALSE,
                info |-> addAttrs(<<<<KeySerial, serial>>, <<KeyState, state>>>>,
                                  SplitWs(JoinSp(rest)))]

\* text.split(/\r?\n/).map(l => l.trim()).filter(Boolean)
splitLines(t) ==
  LET raw == SplitNewline(t)
  IN FilterNonEmpty([i \in 1..Len(raw) |-> Trim(raw[i])])

\* the texts parseDevicesList is given: any concatenation of a few pieces ...
Pieces == {Header, <<NL>>, <<CR, NL>>, <<SP>>, <<TAB>>, <<"a">>}

RECURSIVE PieceSeqs(_)
PieceSeqs(n) ==
  IF n = 0 THEN {<<>>}
  ELSE PieceSeqs(n - 1) \cup {Append(ps, p) : ps \in PieceSeqs(n - 1), p \in Pieces}

FreeTexts == {Concat(ps) : ps \in PieceSeqs(MaxPieces)}

\* ... any text of a few lines, each one of these ...
LineTemplates ==
  {Header, <<>>, <<"a">>, <<"a", TAB, "b">>,
   <<"b", SP, "a", SP, "k", COLON, "v">>, <<SP, "a", SP, SP, "b", CR>>,
   Header \o <<SP, "a", SP, "b">>}

RECURSIVE LineSeqs(_)
LineSeqs(n) ==
  IF n = 0 THEN {<<>>}
  ELSE LineSeqs(n - 1) \cup {Append(ls, l) : ls \in LineSeqs(n - 1), l \in LineTemplates}

LineTexts == {JoinWith(ls, <<NL>>) : ls \in LineSeqs(MaxLines)}

\* ... and well-formed device lines: a serial, a state and key:value tokens
Serials == {<<"a">>, <<"a", "b">>}
States == {<<"d">>}
AttrKeys == {<<"k">>, <<"m">>, KeySerial, KeyState}
AttrValues == {<<"v">>, <<"v", COLON, "w">>}

RECURSIVE AttrSeqs(_)
AttrSeqs(n) ==
  IF n = 0 THEN {<<>>}
  ELSE AttrSeqs(n - 1)
       \cup {Append(as, <<k, v>>) : as \in AttrSeqs(n - 1), k \in AttrKeys, v \in AttrValues}

NoOrig == [known |-> FALSE, serial |-> <<>>, state |-> <<>>, attrs |-> <<>>]

DeviceLines ==
  {[known |-> TRUE, serial |-> s, state |-> d, attrs |-> as]
     : s \in Serials, d \in States, as \in AttrSeqs(MaxAttrs)}

deviceLineText(o) ==
  o.serial \o <<TAB>> \o o.state
  \o Concat([i \in 1..Len(o.attrs) |-> <<SP>> \o o.attrs[i][1] \o <<COLON>> \o o.attrs[i][2]])
  \o <<NL>>

ParseIdle ==
  /\ ppc = "start"
  /\ text = <<>>
  /\ orig = NoOrig
  /\ lines = <<>>
  /\ idx = 1
  /\ list = <<>>

ParseInputs ==
  /\ ppc = "start"
  /\ \/ text \in FreeTexts \cup LineTexts /\ orig = NoOrig
     \/ \E o \in DeviceLines : orig = o /\ text = Header \o <<NL>> \o deviceLineText(o)
  /\ lines = <<>>
  /\ idx = 1
  /\ list = <<>>

\* const lines = ...; const list = [];
SplitLines ==
  /\ ppc = "start"
  /\ lines' = splitLines(text)
  /\ list' = <<>>
  /\ idx' = 1
  /\ ppc' = "loop"
  /\ UNCHANGED <<text, orig>>
  /\ UNCHANGED <<logVars, httpVars, pickVars, apkVars>>

\* one iteration of for (const l of lines)
ParseLine ==
  /\ ppc = "loop"
  /\ idx <= Len(lines)
  /\ list' = IF parseLine(lines[idx]).skip THEN list
             ELSE Append(list, parseLine(lines[idx]).info)
  /\ idx' = idx + 1
  /\ UNCHANGED <<ppc, text, orig, lines>>
  /\ UNCHANGED <<logVars, httpVars, pickVars, apkVars>>

\* return list
ParseReturn ==
  /\ ppc = "loop"
  /\ idx > Len(lines)
  /\ ppc' = "done"
  /\ UNCHANGED <<text, orig, lines, idx, list>>
  /\ UNCHANGED <<logVars, httpVars, pickVars, apkVars>>

NextParse ==
  \/ SplitLines
  \/ ParseLine
  \/ ParseReturn

(***************************************************************************)
(* WebAdbHelper.pickSerial and its fallback.                               *)
(***************************************************************************)
\* calls of pickSerial
MaxCalls == 2

NoOpts == [killServerUrl |-> FALSE, startServerUrl |-> FALSE, useWebUsbOnly |-> FALSE]

PickIdle ==
  /\ kpc = "idle"
  /\ kopts = NoOpts
  /\ calls = 0
  /\ adbLoaded = FALSE
  /\ requests = <<>>
  /\ fallback = "none"
  /\ kresult = "none"

\* pickSerial(options) is called; each URL is given or not
PickSerial(o) ==
  /\ kpc \in {"idle", "settled"}
  /\ calls < MaxCalls
  /\ calls' = calls + 1
  /\ kopts' = o
  /\ kpc' = "webusb"
  /\ requests' = <<>>
  /\ fallback' = "none"
  /\ kresult' = "none"
  /\ UNCHANGED adbLoaded
  /\ UNCHANGED <<logVars, httpVars, parseVars, apkVars>>

\* await tryWebUsbSerial(filters): a serial, '' or an exception; then the
\* useWebUsbOnly check
WebUsbDirect(outcome) ==
  /\ kpc = "webusb"
  /\ IF outcome = "serial"
     THEN kpc' = "settled" /\ kresult' = "serial"
     ELSE IF kopts.useWebUsbOnly
          THEN kpc' = "settled" /\ kresult' = "rejected"
          ELSE kpc' = "kill" /\ UNCHANGED kresult
  /\ UNCHANGED <<kopts, calls, adbLoaded, requests, fallback>>
  /\ UNCHANGED <<logVars, httpVars, parseVars, apkVars>>

\* async function killAdbServer(url) { if (url) try { await fetch(url, ...) } catch(_){} }
killAdbServer(url) == IF url THEN Append(requests, "kill-server") ELSE requests

\* async function startAdbServer(url)
startAdbServer(url) == IF url THEN Append(requests, "start-server") ELSE requests

\* await killAdbServer(killServerUrl), before the try block
KillServer ==
  /\ kpc = "kill"
  /\ requests' = killAdbServer(kopts.killServerUrl)
  /\ kpc' = "loadCore"
  /\ UNCHANGED <<kopts, calls, adbLoaded, fallback, kresult>>
  /\ UNCHANGED <<logVars, httpVars, parseVars, apkVars>>

\* a try block whose exception skips the start of the server
leaveTry_NoFinally(how) ==
  IF how = "threw"
  THEN kpc' = "settled" /\ fallback' = how /\ kresult' = "empty"
  ELSE kpc' = "start" /\ fallback' = how /\ UNCHANGED kresult

\* the try block is left, by return or by an exception: the finally block runs
leaveTry(how) ==
  kpc' = "start" /\ fallback' = how /\ UNCHANGED kresult

\* await loadCore(coreSrc): throws when window.Adb did not appear
LoadCore(appears) ==
  /\ kpc = "loadCore"
  /\ adbLoaded' = (adbLoaded \/ appears)
  /\ IF adbLoaded \/ appears
     THEN kpc' = "open" /\ UNCHANGED <<fallback, kresult>>
     ELSE leaveTry("threw")
  /\ UNCHANGED <<kopts, calls, requests>>
  /\ UNCHANGED <<logVars, httpVars, parseVars, apkVars>>

\* one awaited step of the try block that goes on or throws: Adb.open and
\* isAdb(), connectAdb, adb.shell
TryStep(from, to, ok) ==
  /\ kpc = from
  /\ IF ok
     THEN kpc' = to /\ UNCHANGED <<fallback, kresult>>
     ELSE leaveTry("threw")
  /\ UNCHANGED <<kopts, calls, adbLoaded, requests>>
  /\ UNCHANGED <<logVars, httpVars, parseVars, apkVars>>

\* await out.receive(), the decoded serial, await webusb.close(), the check
\* of the serial and the return
ReceiveAndClose(outcome) ==
  /\ kpc = "receive"
  /\ leaveTry(IF outcome = "serial" THEN "serial" ELSE "threw")
  /\ UNCHANGED <<kopts, calls, adbLoaded, requests>>
  /\ UNCHANGED <<logVars, httpVars, parseVars, apkVars>>

\* finally { await startAdbServer(startServerUrl); } and pickSerial's return:
\* the serial, or '' in its catch
StartServer ==
  /\ kpc = "start"
  /\ requests' = startAdbServer(kopts.startServerUrl)
  /\ kpc' = "settled"
  /\ kresult' = IF fallback = "serial" THEN "serial" ELSE "empty"
  /\ UNCHANGED <<kopts, calls, adbLoaded, fallback>>
  /\ UNCHANGED <<logVars, httpVars, parseVars, apkVars>>

PickOptions ==
  [killServerUrl : BOOLEAN, startServerUrl : BOOLEAN, useWebUsbOnly : BOOLEAN]

NextPick ==
  \/ \E o \in PickOptions : PickSerial(o)
  \/ \E outcome \in {"serial", "empty", "threw"} : WebUsbDirect(outcome)
  \/ KillServer
  \/ \E appears \in BOOLEAN : LoadCore(appears)
  \/ \E ok \in BOOLEAN : TryStep("open", "connect", ok)
  \/ \E ok \in BOOLEAN : TryStep("connect", "shell", ok)
  \/ \E ok \in BOOLEAN : TryStep("shell", "receive", ok)
  \/ \E outcome \in {"serial", "empty", "receiveFailed", "closeFailed"} :
       ReceiveAndClose(outcome)
  \/ StartServer

(***************************************************************************)
(* /api/package/apk.                                                       *)
(***************************************************************************)
\* lines of the output of pm path
MaxPaths == 3

ApkIdle ==
  /\ apc = "idle"
  /\ apkType = "base"
  /\ paths = <<>>
  /\ pathIdx = 1
  /\ tmpDir = FALSE
  /\ onDisk = {}
  /\ pulled = <<>>
  /\ queue = <<>>
  /\ zipped = {}
  /\ apkResp = "none"

RECURSIVE PathLists(_)
PathLists(n) ==
  IF n = 0 THEN {<<>>}
  ELSE PathLists(n - 1)
       \cup {Append(ps, k) : ps \in PathLists(n - 1), k \in {"package", "split"}}

\* basePath: set by a line that starts with 'package:'
hasBasePath(ps) == \E i \in 1..Len(ps) : ps[i] = "package"

\* the request, up to await adbCmd([... 'pm', 'path', pkg])
ApkRequest(hasSerialAndPkg, type) ==
  /\ apc = "idle"
  /\ apkType' = type
  /\ IF hasSerialAndPkg
     THEN apc' = "pmPath" /\ UNCHANGED apkResp
     ELSE apc' = "done" /\ apkResp' = "400"
  /\ UNCHANGED <<paths, pathIdx, tmpDir, onDisk, pulled, queue, zipped>>
  /\ UNCHANGED <<logVars, httpVars, parseVars, pickVars>>

\* the handler's end in the 'all splits' path, from the end of the pull loop:
\* the fallback to the base APK, or the archive with a file queued for each
\* pulled one and finalize(); then the finally block's fs.rmSync(tmpDir, ...).
\* Nothing is awaited in between: the archive reads its files later.
zipAndCleanup(got) ==
  /\ IF got = <<>> /\ hasBasePath(paths)
     THEN apkResp' = "baseStream" /\ queue' = <<>> /\ apc' = "done"
     ELSE apkResp' = "zipStream" /\ queue' = got /\ apc' = "archiving"
  /\ tmpDir' = FALSE
  /\ onDisk' = {}

\* pm path returned: the 500 and 404 answers, the base APK streamed directly,
\* or fs.mkdtempSync and the first pull
PmPath(e, ps) ==
  /\ apc = "pmPath"
  /\ IF ~adbCmd(e).ok
     THEN /\ apc' = "done" /\ apkResp' = "500"
          /\ UNCHANGED <<paths, tmpDir, onDisk, queue>>
     ELSE /\ paths' = ps
          /\ IF ps = <<>>
             THEN /\ apc' = "done" /\ apkResp' = "404"
                  /\ UNCHANGED <<tmpDir, onDisk, queue>>
             ELSE IF apkType = "base" /\ hasBasePath(ps)
             THEN /\ apc' = "done" /\ apkResp' = "baseStream"
                  /\ UNCHANGED <<tmpDir, onDisk, queue>>
             ELSE /\ apc' = "pull" /\ tmpDir' = TRUE
                  /\ UNCHANGED <<apkResp, onDisk, queue>>
  /\ UNCHANGED <<apkType, pathIdx, pulled, zipped>>
  /\ UNCHANGED <<logVars, httpVars, parseVars, pickVars>>

\* await adbCmd([... 'pull', pth, dest]) returned for paths[pathIdx]; after
\* the last path the handler runs to its end
PullReturn(e, exists) ==
  /\ apc = "pull"
  /\ pathIdx <= Len(paths)
  /\ LET got == IF adbCmd(e).ok /\ exists THEN Append(pulled, pathIdx) ELSE pulled
     IN /\ pulled' = got
        /\ pathIdx' = pathIdx + 1
        /\ IF pathIdx < Len(paths)
           THEN /\ onDisk' = IF adbCmd(e).ok /\ exists THEN onDisk \cup {pathIdx} ELSE onDisk
                /\ UNCHANGED <<apc, tmpDir, queue, apkResp>>
           ELSE zipAndCleanup(got)
  /\ UNCHANGED <<apkType, paths, zipped>>
  /\ UNCHANGED <<logVars, httpVars, parseVars, pickVars>>

\* the archive turns to its next queued file: written into the response, or
\* left out of it when the file is gone
ArchiveRead ==
  /\ apc = "archiving"
  /\ queue # <<>>
  /\ queue' = Tail(queue)
  /\ IF Head(queue) \in onDisk
     THEN zipped' = zipped \cup {Head(queue)} /\ UNCHANGED apkResp
     ELSE apkResp' = "zipEntryMissing" /\ UNCHANGED zipped
  /\ UNCHANGED apc
  /\ UNCHANGED <<apkType, paths, pathIdx, tmpDir, onDisk, pulled>>
  /\ UNCHANGED <<logVars, httpVars, parseVars, pickVars>>

\* the archive is finalized: every queued file was read
ArchiveEnd ==
  /\ apc = "archiving"
  /\ queue = <<>>
  /\ apc' = "done"
  /\ apkResp' = IF apkResp = "zipStream" THEN "zipDone" ELSE apkResp
  /\ UNCHANGED <<apkType, paths, pathIdx, tmpDir, onDisk, pulled, queue, zipped>>
  /\ UNCHANGED <<logVars, httpVars, parseVars, pickVars>>

NextApk ==
  \/ \E ok \in BOOLEAN, type \in {"base", "all"} : ApkRequest(ok, type)
  \/ \E e \in ExecaSettlements(NoTimeout), ps \in PathLists(MaxPaths) : PmPath(e, ps)
  \/ \E e \in ExecaSettlements(WithTimeout(InstallTimeoutMs)), exists \in BOOLEAN :
       PullReturn(e, exists)
  \/ ArchiveRead
  \/ ArchiveEnd

Init == InitLog /\ InitHttp /\ ParseIdle /\ PickIdle /\ ApkIdle

InitParse == InitLog /\ InitHttp /\ ParseInputs /\ PickIdle /\ ApkIdle

SpecLogcat == Init /\ [][NextLogcat]_vars

\* the event loop runs due timers, and the clock advances
FairSpecLogcat == SpecLogcat /\ WF_vars(Tick) /\ WF_vars(ForceKill)

SpecHttp == Init /\ [][NextHttp]_vars

SpecParse == InitParse /\ [][NextParse]_vars

SpecPick == Init /\ [][NextPick]_vars

SpecApk == Init /\ [][NextApk]_vars

(***************************************************************************)
(* Claims about /api/logcat.                                               *)
(***************************************************************************)
\* C1: once the close handler has run (the relay is Closed), no send() happens:
\* no 'data' callback of the still-running subprocess writes to the response.
C1_NoSendAfterClose == lateWrites = 0

\* C2: after the client disconnects the subprocess is eventually terminated
\* (SIGTERM, then the force-kill after the 2000 ms grace period), and a further
\* run of the close handler leaves the relay Closed, spawns nothing and changes
\* nothing about the subprocess.
C2_TerminatedAndIdempotent ==
  /\ (closeCount > 0) ~> (child = "exited")
  /\ [][(closeCount >= 1 /\ closeCount' = closeCount + 1)
         => (relay = "Closed" /\ relay' = "Closed" /\ child' = child
             /\ spawned' = spawned /\ spawned <= 1 /\ written' = written)]_vars

\* the close handler ran twice and the subprocess, which ignored SIGTERM, was
\* force-killed when the grace period ended
C2_Witness ==
  closeCount = 2 /\ killTimer = "fired" /\ child = "exited" /\ spawned = 1

EndsLine(s) == s = <<>> \/ s[Len(s)] = NL

writtenFrom(src) == SelectSeq(written, LAMBDA w : w.src = src)

\* C3: while Streaming, once the subprocess has written whole lines and every
\* chunk was delivered, each non-empty line was forwarded as exactly one event
\* carrying the whole line, in order, however the output was split into chunks;
\* standard-error lines likewise with the prefix "[stderr] ".
C3_WholeLinesForwarded ==
  (/\ relay = "Streaming"
   /\ stdoutPipe = <<>> /\ stderrPipe = <<>>
   /\ EndsLine(emittedOut) /\ EndsLine(emittedErr))
  => /\ writtenFrom("stdout") = framesOf("stdout", <<>>, emittedOut)
     /\ writtenFrom("stderr") = framesOf("stderr", StderrPrefix, emittedErr)

(***************************************************************************)
(* Claims about the handlers and the Command Runner.                       *)
(***************************************************************************)
requestFinished == hpc = "responded" /\ ~unlinkPending

\* C4: for every /api/push and /api/install request whose upload was stored to
\* a temporary path, the file is deleted once the request is finished, on every
\* path (success, adb failure, early validation rejection).
C4_TempFileDeleted ==
  (requestFinished /\ route \in {"push", "install"} /\ body.file)
  => tmpFile = "deleted"

\* C5: adbCmd never throws; it returns ok=true exactly when the tool exited
\* with code 0, and ok=false with a non-empty error message otherwise.
C5_RunnerReturnsData ==
  adbSettle # NoSettle
  => /\ ~adbRes.thrown
     /\ adbRes.ok <=> (adbSettle.kind = "exit0" /\ adbSettle.exitCode = 0)
     /\ ~adbRes.ok => (adbRes.error # Undef /\ adbRes.error # "")

\* execa refused the options (no shortMessage on the error) and adbCmd
\* returned the failure as data
C5_Witness ==
  /\ adbSettle # NoSettle
  /\ adbSettle.kind = "invalidOptions"
  /\ ~adbRes.ok /\ adbRes.error # Undef
  /\ status = 500

timeoutFalsy(x) == Number(x).nan \/ Number(x).v = 0

\* C10: for every timeoutMs of a /api/shell request the timeout handed to the
\* subprocess is in 1..300000, and is 30000 when timeoutMs is missing, zero or
\* non-numeric.
C10_ShellTimeoutInRange ==
  (route = "shell" /\ hpc \in {"awaitAdb", "responded"} /\ adbArgs # <<>>)
  => /\ adbOpts.hasTimeout
     /\ adbOpts.timeout \in 1..MaxTimeoutMs
     /\ timeoutFalsy(body.timeoutMs) => adbOpts.timeout = DefaultTimeoutMs

(***************************************************************************)
(* Claims about parseDevicesList.                                          *)
(***************************************************************************)
\* the input's lines, cut at every line feed
RECURSIVE InputLinesFrom(_, _)
InputLinesFrom(t, i) ==
  LET ends == {j \in i..Len(t) : t[j] = NL}
  IN IF ends = {} THEN <<SubSeq(t, i, Len(t))>>
     ELSE LET e == CHOOSE j \in ends : \A k \in ends : j <= k
          IN <<SubSeq(t, i, e - 1)>> \o InputLinesFrom(t, e + 1)

InputLines(t) == InputLinesFrom(t, 1)

IsWs(c) == c \in {" ", "\t", "\n", "\r"}

\* the number of tokens of a line: the places where a token starts
TokenCount(l) ==
  Cardinality({i \in 1..Len(l) : ~IsWs(l[i]) /\ (i = 1 \/ IsWs(l[i - 1]))})

FirstToken(l) == CHOOSE i \in 1..Len(l) : ~IsWs(l[i]) /\ \A j \in 1..(i - 1) : IsWs(l[j])

IsHeaderLine(l) ==
  /\ Len(l) >= FirstToken(l) + Len(Header) - 1
  /\ \A j \in 1..Len(Header) : l[FirstToken(l) + j - 1] = Header[j]

\* a non-blank, non-header line with a serial and a state token
IsDeviceLine(l) == TokenCount(l) >= 2 /\ ~IsHeaderLine(l)

DeviceLinesOf(t) == SelectSeq(InputLines(t), IsDeviceLine)

\* C6: parseDevicesList returns one record per non-blank, non-header line that
\* has a serial and a state token, none for any other line, in the order of
\* the lines.
C6_OneRecordPerDeviceLine ==
  ppc = "done"
  => LET ds == DeviceLinesOf(text)
     IN list = [i \in 1..Len(ds) |-> parseLine(Trim(ds[i])).info]

\* a text with a line of one token and two different device lines was parsed
C6_Witness ==
  /\ ppc = "done"
  /\ Len(list) = 2 /\ list[1] # list[2]
  /\ \E i \in 1..Len(InputLines(text)) : TokenCount(InputLines(text)[i]) = 1

\* C7: for a well-formed device line built from a serial, a state and key:value
\* tokens, the record carries exactly that serial, that state and every
\* attribute key with its full value, in token order.
C7_RoundTrip ==
  (/\ ppc = "done" /\ orig.known
   /\ \A i, j \in 1..Len(orig.attrs) : orig.attrs[i][1] = orig.attrs[j][1] => i = j)
  => list = << <<<<KeySerial, orig.serial>>, <<KeyState, orig.state>>>> \o orig.attrs >>

(***************************************************************************)
(* Claims about pickSerial and /api/package/apk.                           *)
(***************************************************************************)
Issued(r) == \E i \in 1..Len(requests) : requests[i] = r

StartFollowsKill ==
  \E i, j \in 1..Len(requests) :
    i < j /\ requests[i] = "kill-server" /\ requests[j] = "start-server"

StartPrecedesKill ==
  \E i, j \in 1..Len(requests) :
    i < j /\ requests[i] = "start-server" /\ requests[j] = "kill-server"

C9_NoFileRemovedBeforeZipped ==
  \A i \in 1..Len(pulled) :
    (apkResp \in {"zipStream", "zipDone", "zipEntryMissing"} /\ pulled[i] \notin onDisk)
    => pulled[i] \in zipped

====
